---- MODULE Spec2Model ----
(***************************************************************************)
(* Model of src/sim/run.py: the batch runner main(), the control loop      *)
(* MixedTrafficSimulation.run() and the per-step classification, signal    *)
(* adaptation, metric collection and emergency-braking detection, driven   *)
(* against a model of the external engine reached through traci.           *)
(*                                                                         *)
(* Units: accelerations are in tenths of m/s^2 (-75 is -7.5), penetration  *)
(* rates and random samples in hundredths (50 is 0.5), results of Python's *)
(* true division are exact fractions [n, d] in lowest terms.               *)
(***************************************************************************)
EXTENDS Integers, Sequences, FiniteSets, TLC

(***************************************************************************)
(* Bounds of the model.                                                    *)
(***************************************************************************)
\* largest step count of a run in the short specifications
MaxSteps == 2
\* largest number of steps a vehicle stays in the network
MaxTrip == 2
\* step count of every run of the batch (run()'s default, capped)
BatchSteps == 1
\* phase duration the signal programs of the network start with
ProgramDuration == 30

\* the vehicle identifiers of the scenario's demand
Vehicles == {"veh0", "veh1"}

(***************************************************************************)
(* Program constants.                                                      *)
(***************************************************************************)
emergency_brake_threshold == -75
AdaptPeriod == 30
WaitingThreshold == 120
AdaptedDuration == 10
congestion_threshold == 5

\* main(): av_rates = [0.0, 0.5, 1.0]
MainRates == <<0, 50, 100>>

\* np.random.random() draws from [0, 1): samples in hundredths
Samples == {0, 49, 50, 99}

SeriesKeys ==
    {"number_of_stops", "fuel_consumption", "mean_speed",
     "average_travel_time", "traffic_flow_rate", "congestion_levels"}

(***************************************************************************)
(* The network of the scenario: traffic lights and the lanes they control. *)
(***************************************************************************)
TrafficLights == <<"t1", "t2">>
ControlledLanes == [t \in {"t1", "t2"} |-> IF t = "t1" THEN <<"l1">> ELSE <<"l2">>]

\* the signal program of every traffic light: its phases, in cycle order
PhaseProgram == <<"GGrr", "yyrr", "rrGG", "rryy">>
NextPhase(p) == IF p = Len(PhaseProgram) THEN 1 ELSE p + 1

\* what the engine can report for one active vehicle in one step
Profiles ==
    { [accel |-> -75, speed |-> 4, stop |-> 0, fuel |-> 3, acc_wait |-> 0,
       wait |-> 0, lane |-> "l0"],
      [accel |-> -74, speed |-> 5, stop |-> 0, fuel |-> 2, acc_wait |-> 1,
       wait |-> 0, lane |-> "l0"],
      [accel |-> 0, speed |-> 0, stop |-> 1, fuel |-> 1, acc_wait |-> 120,
       wait |-> 120, lane |-> "l1"],
      [accel |-> 0, speed |-> 0, stop |-> 1, fuel |-> 1, acc_wait |-> 121,
       wait |-> 121, lane |-> "l1"],
      [accel |-> 0, speed |-> 0, stop |-> 1, fuel |-> 1, acc_wait |-> 121,
       wait |-> 121, lane |-> "l2"] }

\* the record of a vehicle that is not in the network
Absent ==
    [accel |-> 0, speed |-> 0, stop |-> 0, fuel |-> 0, acc_wait |-> 0,
     wait |-> 0, lane |-> "none"]

(***************************************************************************)
(* Arithmetic helpers.                                                     *)
(***************************************************************************)
RECURSIVE GCD(_, _)
GCD(a, b) == IF b = 0 THEN a ELSE GCD(b, a % b)

\* Python's a / b for integers a >= 0, b > 0
Div(a, b) == LET g == GCD(a, b) IN [n |-> a \div g, d |-> b \div g]

Max(a, b) == IF a >= b THEN a ELSE b

RECURSIVE SumOver(_, _)
SumOver(f, S) ==
    IF S = {} THEN 0
    ELSE LET x == CHOOSE y \in S : TRUE IN f[x] + SumOver(f, S \ {x})

\* defaultdict(list): a missing key reads as the empty list
Get(m, k) == IF k \in DOMAIN m THEN m[k] ELSE <<>>
Put(m, k, x) == [y \in DOMAIN m \cup {k} |-> IF y = k THEN x ELSE m[y]]
AppendTo(m, k, x) == Put(m, k, Append(Get(m, k), x))

VARIABLES
    pc,                  \* position of main() / run()
    av_rates,            \* main: the list of penetration rates
    rate_idx,            \* main: index of the rate of the current run
    all_metrics,         \* main: rate -> metric bundle of its run
    report,              \* what save_metrics_to_csv / analyze_results wrote
    steps,               \* run: the steps argument
    scenario,            \* the scenario named by config_file
    av_penetration_rate, \* self.av_penetration_rate
    metrics,             \* self.metrics
    adaptation_count,    \* self.adaptation_count
    autonomous_vehicles, \* self.autonomous_vehicles
    step,                \* run: the loop variable
    traci_open,          \* engine: number of open connections
    traci_time,          \* engine: simulation time
    traci_left,          \* engine: steps each vehicle may still stay in the network
    traci_departed,      \* engine: identifiers departed in the last step
    traci_vehicle,       \* engine: per-vehicle state of the last step
    traci_vtype,         \* engine: vehicle type of each identifier
    traci_phase_duration,\* engine: phase duration of each traffic light
    traci_phase,         \* engine: index of the active phase of each traffic light
    traci_phase_end,     \* engine: time at which the active phase ends
    close_calls,         \* calls of traci.close in the current run
    departed_seen,       \* identifiers reported as departed in the current run
    adaptations          \* calls of _optimize_traffic_light in the current run

vars ==
    <<pc, av_rates, rate_idx, all_metrics, report, steps, scenario,
      av_penetration_rate, metrics, adaptation_count, autonomous_vehicles,
      step, traci_open, traci_time, traci_left, traci_departed, traci_vehicle,
      traci_vtype, traci_phase_duration, traci_phase, traci_phase_end,
      close_calls, departed_seen, adaptations>>

mainVars == <<av_rates, rate_idx, all_metrics, report, steps, scenario>>
simVars == <<av_penetration_rate, metrics, adaptation_count, autonomous_vehicles>>
engineVars ==
    <<traci_open, traci_time, traci_left, traci_departed, traci_vehicle,
      traci_vtype, traci_phase_duration, traci_phase, traci_phase_end>>
logVars == <<close_calls, departed_seen, adaptations>>

(***************************************************************************)
(* Initial states: main() has not yet entered its loop.                    *)
(***************************************************************************)
\* the scenarios: which vehicles the network holds when the engine starts
\* (loaded with the network, never reported as departed), how long after the
\* begin every other vehicle departs, and the time the engine's clock begins
\* at (0 unless the configuration sets a begin time)
Scenarios(times) ==
    { [loaded |-> L, depart |-> d, begin |-> 0] :
        L \in SUBSET Vehicles, d \in UNION { [Vehicles \ K -> times] : K \in SUBSET Vehicles } }

WellFormed(sc) == DOMAIN sc.depart = Vehicles \ sc.loaded

\* MixedTrafficSimulation.__init__: the metrics store
InitialMetrics ==
    [k \in {"emergency_braking_total", "emergency_braking_av",
            "emergency_braking_human"} |-> 0]

InitWith(rates, stepCounts, scenarios) ==
    /\ pc = "main_for"
    /\ av_rates \in rates
    /\ rate_idx = 1
    /\ all_metrics = <<>>
    /\ report = <<>>
    /\ steps \in stepCounts
    /\ scenario \in scenarios
    /\ av_penetration_rate = 0
    /\ metrics = InitialMetrics
    /\ adaptation_count = 0
    /\ autonomous_vehicles = {}
    /\ step = 0
    /\ traci_open = 0
    /\ traci_time = 0
    /\ traci_left = [v \in Vehicles |-> 0]
    /\ traci_departed = {}
    /\ traci_vehicle = [v \in Vehicles |-> Absent]
    /\ traci_vtype = [v \in Vehicles |-> "passenger"]
    /\ traci_phase_duration = [t \in {"t1", "t2"} |-> ProgramDuration]
    /\ traci_phase = [t \in {"t1", "t2"} |-> 1]
    /\ traci_phase_end = [t \in {"t1", "t2"} |-> ProgramDuration]
    /\ close_calls = 0
    /\ departed_seen = {}
    /\ adaptations = {}

\* one run of run(steps) for one rate, steps up to MaxSteps
Init ==
    InitWith({ <<r>> : r \in {0, 50, 100} }, 1..MaxSteps,
             { sc \in Scenarios(0..(MaxSteps - 1)) : WellFormed(sc) })

\* one run long enough to reach the second adaptation check: one vehicle
\* departs at the check of step 0 or of step AdaptPeriod, the other at the
\* check of step AdaptPeriod
InitLong ==
    InitWith({ <<50>> }, {AdaptPeriod + 1},
             { sc \in Scenarios({0, AdaptPeriod}) :
                 /\ sc.loaded = {}
                 /\ WellFormed(sc)
                 /\ sc.depart["veh1"] = AdaptPeriod })

\* one run on a configuration whose clock begins one step before 0 or at 0,
\* so that the engine reports the time 0 after the first step
ClockBegins == {0 - 1, 0}

InitClock ==
    InitWith({ <<50>> }, {MaxSteps},
             { [sc EXCEPT !.begin = b] :
                 sc \in { s \in Scenarios(0..(MaxSteps - 1)) :
                            s.loaded = {} /\ WellFormed(s) },
                 b \in ClockBegins })

\* one run of run(steps), the scenario holding one vehicle
InitRun ==
    InitWith({ <<50>> }, 1..MaxSteps,
             { sc \in Scenarios({0}) : sc.loaded = {} /\ DOMAIN sc.depart = {"veh0"} })

\* main(): one run per rate of av_rates, the scenario holding one vehicle
InitBatch ==
    InitWith({ MainRates }, {BatchSteps},
             { sc \in Scenarios({0}) : sc.loaded = {} /\ DOMAIN sc.depart = {"veh0"} })

(***************************************************************************)
(* main(): the loop head constructs the simulation of the next rate.       *)
(***************************************************************************)
\* variant: the simulation object of the previous rate is used again
main_for_Reused ==
    /\ pc = "main_for"
    /\ rate_idx <= Len(av_rates)
    /\ av_penetration_rate' = av_rates[rate_idx]
    /\ step' = 0
    /\ close_calls' = 0
    /\ departed_seen' = {}
    /\ adaptations' = {}
    /\ pc' = "start_simulation"
    /\ UNCHANGED <<mainVars, engineVars, metrics, adaptation_count,
                   autonomous_vehicles>>

main_for ==
    /\ pc = "main_for"
    /\ rate_idx <= Len(av_rates)
    /\ av_penetration_rate' = av_rates[rate_idx]
    /\ metrics' = InitialMetrics
    /\ adaptation_count' = 0
    /\ autonomous_vehicles' = {}
    /\ step' = 0
    /\ close_calls' = 0
    /\ departed_seen' = {}
    /\ adaptations' = {}
    /\ pc' = "start_simulation"
    /\ UNCHANGED <<mainVars, engineVars>>

(***************************************************************************)
(* run(): start_simulation, setup_vehicle_types, step = 0, the loop test.  *)
(***************************************************************************)
start_simulation ==
    /\ pc = "start_simulation"
    /\ traci_open' = traci_open + 1
    /\ traci_time' = scenario.begin
    /\ traci_left' = [v \in Vehicles |-> IF v \in scenario.loaded THEN MaxTrip ELSE 0]
    /\ traci_departed' = {}
    /\ traci_vehicle' = [v \in Vehicles |-> Absent]
    /\ traci_vtype' = [v \in Vehicles |-> "passenger"]
    /\ traci_phase_duration' = [t \in {"t1", "t2"} |-> ProgramDuration]
    /\ traci_phase' = [t \in {"t1", "t2"} |-> 1]
    /\ traci_phase_end' = [t \in {"t1", "t2"} |-> scenario.begin + ProgramDuration]
    /\ step' = 0
    /\ pc' = IF 0 < steps THEN "simulationStep" ELSE "close"
    /\ UNCHANGED <<mainVars, simVars, logVars>>

(***************************************************************************)
(* The engine advances one step: vehicles of the scenario depart at their  *)
(* time, vehicles in the network stay or arrive, and every vehicle in the  *)
(* network gets the state the engine reports for this step. A traffic      *)
(* light whose active phase has run out switches to the next phase of its  *)
(* program, which starts with the program's duration.                      *)
(***************************************************************************)
PhaseOver(t, now) == now >= traci_phase_end[t]

simulationStep ==
    /\ pc = "simulationStep"
    /\ LET departing == { v \in DOMAIN scenario.depart : scenario.depart[v] = traci_time - scenario.begin }
           staying == { v \in Vehicles \ departing : traci_left[v] > 0 }
       IN  \E kept \in SUBSET staying :
             /\ traci_left' =
                  [v \in Vehicles |->
                     IF v \in departing THEN MaxTrip - 1
                     ELSE IF v \in kept THEN traci_left[v] - 1
                     ELSE 0]
             /\ traci_departed' = departing
             /\ traci_vehicle' \in [Vehicles -> Profiles \cup {Absent}]
             /\ \A v \in Vehicles :
                  (traci_vehicle'[v] # Absent) <=> (v \in departing \cup kept)
    /\ traci_time' = traci_time + 1
    /\ traci_phase' =
         [t \in DOMAIN traci_phase |->
            IF PhaseOver(t, traci_time + 1) THEN NextPhase(traci_phase[t])
            ELSE traci_phase[t]]
    /\ traci_phase_end' =
         [t \in DOMAIN traci_phase_end |->
            IF PhaseOver(t, traci_time + 1) THEN traci_time + 1 + ProgramDuration
            ELSE traci_phase_end[t]]
    /\ traci_phase_duration' =
         [t \in DOMAIN traci_phase_duration |->
            IF PhaseOver(t, traci_time + 1) THEN ProgramDuration
            ELSE traci_phase_duration[t]]
    /\ pc' = "classify"
    /\ UNCHANGED <<mainVars, simVars, logVars, step, traci_open, traci_vtype>>

\* traci.vehicle.getIDList()
getIDList == { v \in Vehicles : traci_vehicle[v] # Absent }

(***************************************************************************)
(* run(): some newly departed vehicles become autonomous.                  *)
(***************************************************************************)
\* variants of the comparison: inclusive, and reversed
IsDrawnAutonomous_Inclusive(sample, rate) == sample <= rate
IsDrawnAutonomous_Reversed(sample, rate) == sample > rate

\* np.random.random() < self.av_penetration_rate
IsDrawnAutonomous(sample, rate) == sample < rate

\* variant: the set is rebuilt from the vehicles chosen in this step
AddAutonomous_Rebuilt(set, chosen) == chosen

\* self.autonomous_vehicles.add(vehicle_id), for every chosen vehicle
AddAutonomous(set, chosen) == set \cup chosen

\* AutonomousVehicle.__init__: traci.vehicle.setType
setType(vtype, chosen) ==
    [v \in Vehicles |-> IF v \in chosen THEN "autonomous_passenger" ELSE vtype[v]]

\* variant: every vehicle in the network is offered for classification
getDepartedIDList_AllActive == { v \in Vehicles : traci_vehicle[v] # Absent }

\* traci.simulation.getDepartedIDList()
getDepartedIDList == traci_departed

classify ==
    /\ pc = "classify"
    /\ \E draw \in [getDepartedIDList -> Samples] :
         LET chosen == { v \in getDepartedIDList :
                           IsDrawnAutonomous(draw[v], av_penetration_rate) }
         IN  /\ autonomous_vehicles' = AddAutonomous(autonomous_vehicles, chosen)
             /\ traci_vtype' = setType(traci_vtype, chosen)
    /\ departed_seen' = departed_seen \cup traci_departed
    /\ pc' = "adapt"
    /\ UNCHANGED <<mainVars, av_penetration_rate, metrics, adaptation_count, step,
                   traci_open, traci_time, traci_left, traci_departed,
                   traci_vehicle, traci_phase_duration, traci_phase,
                   traci_phase_end, close_calls, adaptations>>

(***************************************************************************)
(* adapt_traffic_lights, every 30 steps.                                   *)
(***************************************************************************)
\* traci.lane.getLastStepVehicleIDs(lane_id)
getLastStepVehicleIDs(lane_id) ==
    { v \in getIDList : traci_vehicle[v].lane = lane_id }

\* traci.vehicle.getWaitingTime, as a function of the vehicle
getWaitingTime == [v \in Vehicles |-> traci_vehicle[v].wait]

RECURSIVE LanesWaitingTime(_)
LanesWaitingTime(lanes) ==
    IF lanes = <<>> THEN 0
    ELSE SumOver(getWaitingTime, getLastStepVehicleIDs(Head(lanes)))
         + LanesWaitingTime(Tail(lanes))

_get_total_waiting_time(tls_id) == LanesWaitingTime(ControlledLanes[tls_id])

\* variant: the check runs in every step
AdaptDue_EveryStep(s) == TRUE

\* run(): if step % 30 == 0
AdaptDue(s) == s % AdaptPeriod = 0

\* adapt_traffic_lights(): if waiting_time > 120
ShouldAdapt(waiting_time) == waiting_time > WaitingThreshold

\* variant: a traffic light adapted at an earlier check is left alone
ToOptimize_Cooldown ==
    { i \in 1..Len(TrafficLights) :
        /\ ShouldAdapt(_get_total_waiting_time(TrafficLights[i]))
        /\ \A a \in adaptations : a.tls # TrafficLights[i] }

\* the traffic lights adapt_traffic_lights passes to _optimize_traffic_light
ToOptimize ==
    { i \in 1..Len(TrafficLights) :
        ShouldAdapt(_get_total_waiting_time(TrafficLights[i])) }

\* the traffic lights _optimize_traffic_light is called for
Optimized == { TrafficLights[i] : i \in ToOptimize }

\* traci.trafficlight.setPhaseDuration(tls_id, 10): the active phase ends 10
\* after the current time
setPhaseDuration ==
    /\ traci_phase_duration' =
         [t \in DOMAIN traci_phase_duration |->
            IF t \in Optimized THEN AdaptedDuration ELSE traci_phase_duration[t]]
    /\ traci_phase_end' =
         [t \in DOMAIN traci_phase_end |->
            IF t \in Optimized THEN traci_time + AdaptedDuration
            ELSE traci_phase_end[t]]

\* variant: the adapted traffic light is also switched to its next phase
adapt_traffic_lights_NextPhase ==
    /\ setPhaseDuration
    /\ traci_phase' =
         [t \in DOMAIN traci_phase |->
            IF t \in Optimized THEN NextPhase(traci_phase[t]) ELSE traci_phase[t]]
    /\ adaptation_count' = adaptation_count + Cardinality(ToOptimize)
    /\ adaptations' =
         adaptations \cup
           { [step |-> step, tls |-> TrafficLights[i],
              waiting_time |-> _get_total_waiting_time(TrafficLights[i])] :
               i \in ToOptimize }

adapt_traffic_lights ==
    /\ setPhaseDuration
    /\ traci_phase' = traci_phase
    /\ adaptation_count' = adaptation_count + Cardinality(ToOptimize)
    /\ adaptations' =
         adaptations \cup
           { [step |-> step, tls |-> TrafficLights[i],
              waiting_time |-> _get_total_waiting_time(TrafficLights[i])] :
               i \in ToOptimize }

adapt ==
    /\ pc = "adapt"
    /\ IF AdaptDue(step)
       THEN adapt_traffic_lights
       ELSE UNCHANGED <<traci_phase_duration, traci_phase, traci_phase_end,
                        adaptation_count, adaptations>>
    /\ pc' = "collect_metrics"
    /\ UNCHANGED <<mainVars, av_penetration_rate, metrics, autonomous_vehicles,
                   step, traci_open, traci_time, traci_left, traci_departed,
                   traci_vehicle, traci_vtype, close_calls, departed_seen>>

(***************************************************************************)
(* collect_metrics and collect_additional_metrics.                         *)
(***************************************************************************)
getStopState == [v \in Vehicles |-> traci_vehicle[v].stop]
getFuelConsumption == [v \in Vehicles |-> traci_vehicle[v].fuel]
getSpeed == [v \in Vehicles |-> traci_vehicle[v].speed]
getAccumulatedWaitingTime == [v \in Vehicles |-> traci_vehicle[v].acc_wait]
getAcceleration == [v \in Vehicles |-> traci_vehicle[v].accel]

\* variant: the early return comes before the mean speed is appended
CollectEmpty_NoMeanSpeed(m) ==
    AppendTo(AppendTo(m, "number_of_stops", 0), "fuel_consumption", 0)

\* the branch of collect_metrics for an empty vehicle list
CollectEmpty(m) ==
    AppendTo(AppendTo(AppendTo(m, "number_of_stops", 0),
                      "fuel_consumption", 0),
             "mean_speed", Div(0, 1))

CollectMetrics(m, vehicles) ==
    IF vehicles = {}
    THEN CollectEmpty(m)
    ELSE LET stops == Cardinality({ v \in vehicles : getStopState[v] # 0 })
             fuel_consumption == SumOver(getFuelConsumption, vehicles)
             speeds == SumOver(getSpeed, vehicles)
         IN  AppendTo(AppendTo(AppendTo(m, "number_of_stops", stops),
                               "fuel_consumption", fuel_consumption),
                      "mean_speed", Div(speeds, Cardinality(vehicles)))

collect_metrics ==
    /\ pc = "collect_metrics"
    /\ metrics' = CollectMetrics(metrics, getIDList)
    /\ pc' = "collect_additional_metrics"
    /\ UNCHANGED <<mainVars, av_penetration_rate, adaptation_count,
                   autonomous_vehicles, step, engineVars, logVars>>

\* variant: the empty branch records the flow of one vehicle
CollectAdditionalEmpty_UnitFlow(m) ==
    AppendTo(AppendTo(AppendTo(m, "average_travel_time", Div(0, 1)),
                      "traffic_flow_rate", Div(1, 1)),
             "congestion_levels", 0)

\* the branch of collect_additional_metrics for an empty vehicle list
CollectAdditionalEmpty(m) ==
    AppendTo(AppendTo(AppendTo(m, "average_travel_time", Div(0, 1)),
                      "traffic_flow_rate", Div(0, 1)),
             "congestion_levels", 0)

\* variant: the vehicle count is divided by the reported time itself
FlowRate_Unguarded(n, time) == IF time = 0 THEN [n |-> n, d |-> 0] ELSE Div(n, time)

\* len(vehicles) / max(1, traci.simulation.getTime())
FlowRate(n, time) == Div(n, Max(1, time))

\* variant: a vehicle at the threshold counts as congested
IsCongested_Inclusive(speed) == speed <= congestion_threshold

\* traci.vehicle.getSpeed(v) < congestion_threshold
IsCongested(speed) == speed < congestion_threshold

CollectAdditionalMetrics(m, vehicles) ==
    IF vehicles = {}
    THEN CollectAdditionalEmpty(m)
    ELSE LET travel_times == SumOver(getAccumulatedWaitingTime, vehicles)
             congested_vehicles ==
                 Cardinality({ v \in vehicles : IsCongested(getSpeed[v]) })
         IN  AppendTo(AppendTo(AppendTo(m, "average_travel_time",
                                        Div(travel_times, Cardinality(vehicles))),
                               "traffic_flow_rate",
                               FlowRate(Cardinality(vehicles), traci_time)),
                      "congestion_levels", congested_vehicles)

collect_additional_metrics ==
    /\ pc = "collect_additional_metrics"
    /\ metrics' = CollectAdditionalMetrics(metrics, getIDList)
    /\ pc' = "detect_emergency_braking"
    /\ UNCHANGED <<mainVars, av_penetration_rate, adaptation_count,
                   autonomous_vehicles, step, engineVars, logVars>>

(***************************************************************************)
(* detect_emergency_braking, then step += 1 and the loop test.             *)
(***************************************************************************)
\* variant: the threshold itself does not count
IsEmergencyBraking_Strict(accel) == accel < emergency_brake_threshold

\* accel <= self.emergency_brake_threshold
IsEmergencyBraking(accel) == accel <= emergency_brake_threshold

Incr(m, k) == [m EXCEPT ![k] = @ + 1]

\* variant: the total is incremented in the human branch only
CountBraking_TotalInElse(m, veh_id) ==
    IF veh_id \in autonomous_vehicles
    THEN Incr(m, "emergency_braking_av")
    ELSE Incr(Incr(m, "emergency_braking_human"), "emergency_braking_total")

\* variant: the vehicles departed in this step are not classified yet when
\* the braking events are counted
CountBraking_BeforeClassification(m, veh_id) ==
    IF veh_id \in autonomous_vehicles \ traci_departed
    THEN Incr(Incr(m, "emergency_braking_av"), "emergency_braking_total")
    ELSE Incr(Incr(m, "emergency_braking_human"), "emergency_braking_total")

\* the body of the if for one braking vehicle
CountBraking(m, veh_id) ==
    IF veh_id \in autonomous_vehicles
    THEN Incr(Incr(m, "emergency_braking_av"), "emergency_braking_total")
    ELSE Incr(Incr(m, "emergency_braking_human"), "emergency_braking_total")

RECURSIVE DetectEmergencyBraking(_, _)
DetectEmergencyBraking(m, vehicles) ==
    IF vehicles = {} THEN m
    ELSE LET veh_id == CHOOSE v \in vehicles : TRUE
             counted == IF IsEmergencyBraking(getAcceleration[veh_id])
                        THEN CountBraking(m, veh_id) ELSE m
         IN  DetectEmergencyBraking(counted, vehicles \ {veh_id})

\* variant: the loop runs while step <= steps
detect_emergency_braking_OneMore ==
    /\ pc = "detect_emergency_braking"
    /\ metrics' = DetectEmergencyBraking(metrics, getIDList)
    /\ step' = step + 1
    /\ pc' = IF step + 1 <= steps THEN "simulationStep" ELSE "close"
    /\ UNCHANGED <<mainVars, av_penetration_rate, adaptation_count,
                   autonomous_vehicles, engineVars, logVars>>

detect_emergency_braking ==
    /\ pc = "detect_emergency_braking"
    /\ metrics' = DetectEmergencyBraking(metrics, getIDList)
    /\ step' = step + 1
    /\ pc' = IF step + 1 < steps THEN "simulationStep" ELSE "close"
    /\ UNCHANGED <<mainVars, av_penetration_rate, adaptation_count,
                   autonomous_vehicles, engineVars, logVars>>

(***************************************************************************)
(* run(): traci.close(), the adaptation total, return; main() stores the   *)
(* bundle under the rate and goes on to the next rate or to the report.    *)
(***************************************************************************)
\* variant: the connection stays open
traci_close_Skipped(open) == open

\* traci.close()
traci_close(open) == open - 1

close ==
    /\ pc = "close"
    /\ traci_open' = traci_close(traci_open)
    /\ close_calls' = close_calls + 1
    /\ metrics' = Put(metrics, "adaptation_frequency", adaptation_count)
    /\ all_metrics' = Put(all_metrics, av_penetration_rate, metrics')
    /\ rate_idx' = rate_idx + 1
    /\ pc' = IF rate_idx + 1 <= Len(av_rates) THEN "main_for" ELSE "save_metrics_to_csv"
    /\ UNCHANGED <<av_rates, report, steps, scenario, av_penetration_rate,
                   adaptation_count, autonomous_vehicles, step, traci_time,
                   traci_left, traci_departed, traci_vehicle, traci_vtype,
                   traci_phase_duration, traci_phase, traci_phase_end,
                   departed_seen, adaptations>>

(***************************************************************************)
(* main(): the report, written once every run has returned.                *)
(***************************************************************************)
\* the series whose entries are counts or sums, not quotients
IntegerKeys == {"number_of_stops", "fuel_consumption", "congestion_levels"}

\* the values of a series, as fractions
Values(bundle, key) ==
    [i \in 1..Len(bundle[key]) |->
       IF key \in IntegerKeys THEN [n |-> bundle[key][i], d |-> 1]
       ELSE bundle[key][i]]

FracLeq(a, b) == a.n * b.d <= b.n * a.d

\* the sum of the first i values, over the product of their denominators
RECURSIVE CommonDenominator(_, _)
CommonDenominator(values, i) ==
    IF i = 0 THEN 1 ELSE values[i].d * CommonDenominator(values, i - 1)

RECURSIVE SumNumerators(_, _)
SumNumerators(values, i) ==
    IF i = 0 THEN 0
    ELSE values[i].n * CommonDenominator(values, i - 1)
           + values[i].d * SumNumerators(values, i - 1)

\* np.mean of a non-empty series: its sum divided by its length
np_mean(values) ==
    [n |-> SumNumerators(values, Len(values)),
     d |-> CommonDenominator(values, Len(values)) * Len(values)]

\* np.max, np.min of a non-empty series: the position of the largest and of
\* the smallest of the first i values, then the value there
RECURSIVE ArgMax(_, _)
ArgMax(values, i) ==
    IF i = 1 THEN 1
    ELSE LET m == ArgMax(values, i - 1)
         IN  IF FracLeq(values[m], values[i]) THEN i ELSE m

RECURSIVE ArgMin(_, _)
ArgMin(values, i) ==
    IF i = 1 THEN 1
    ELSE LET m == ArgMin(values, i - 1)
         IN  IF FracLeq(values[i], values[m]) THEN i ELSE m

np_max(values) == values[ArgMax(values, Len(values))]

np_min(values) == values[ArgMin(values, Len(values))]

\* f'{x:.2f}': x rounded to two decimals (a tie goes to the even digit),
\* written here as the number of hundredths
Format2(x) ==
    LET q == (100 * x.n) \div x.d
        r == (100 * x.n) % x.d
    IN  IF 2 * r < x.d THEN q
        ELSE IF 2 * r > x.d THEN q + 1
        ELSE IF q % 2 = 0 THEN q ELSE q + 1

\* variant: the last column shows the first element of the series
SummaryRow_FirstAsFinal(values) ==
    <<Format2(np_mean(values)), Format2(np_max(values)),
      Format2(np_min(values)), Format2(values[1])>>

\* the row Average, Maximum, Minimum, Final Value of one series
SummaryRow(values) ==
    <<Format2(np_mean(values)), Format2(np_max(values)),
      Format2(np_min(values)), Format2(values[Len(values)])>>

save_metrics_to_csv ==
    /\ pc = "save_metrics_to_csv"
    /\ report' =
         [csv |->
            [rate \in DOMAIN all_metrics |->
               [statistics |->
                  [k \in SeriesKeys |-> SummaryRow(Values(all_metrics[rate], k))],
                adaptations |-> all_metrics[rate]["adaptation_frequency"],
                braking |->
                  <<all_metrics[rate]["emergency_braking_total"],
                    all_metrics[rate]["emergency_braking_av"],
                    all_metrics[rate]["emergency_braking_human"]>>]]]
    /\ pc' = "analyze_results"
    /\ UNCHANGED <<av_rates, rate_idx, all_metrics, steps, scenario, simVars,
                   step, engineVars, logVars>>

analyze_results ==
    /\ pc = "analyze_results"
    /\ report' =
         [csv |-> report.csv,
          plots |-> [k \in SeriesKeys |->
                       [rate \in DOMAIN all_metrics |-> Get(all_metrics[rate], k)]]]
    /\ pc' = "done"
    /\ UNCHANGED <<av_rates, rate_idx, all_metrics, steps, scenario, simVars,
                   step, engineVars, logVars>>

(***************************************************************************)
(* An engine call raises: nothing handles it, run() and main() end.        *)
(***************************************************************************)
\* the positions at which the next statement is a call of the engine
AtEngineCall ==
    \/ pc \in {"start_simulation", "simulationStep", "classify",
               "collect_metrics", "collect_additional_metrics",
               "detect_emergency_braking"}
    \/ pc = "adapt" /\ AdaptDue(step)

\* variant: main() catches the exception and goes on with the next rate
EngineFailure_Skipped ==
    /\ AtEngineCall
    /\ rate_idx' = rate_idx + 1
    /\ pc' = IF rate_idx + 1 <= Len(av_rates) THEN "main_for" ELSE "save_metrics_to_csv"
    /\ UNCHANGED <<av_rates, all_metrics, report, steps, scenario, simVars, step,
                   engineVars, logVars>>

EngineFailure ==
    /\ AtEngineCall
    /\ pc' = "aborted"
    /\ UNCHANGED <<mainVars, simVars, step, engineVars, logVars>>

Next ==
    \/ main_for
    \/ start_simulation
    \/ simulationStep
    \/ classify
    \/ adapt
    \/ collect_metrics
    \/ collect_additional_metrics
    \/ detect_emergency_braking
    \/ close
    \/ save_metrics_to_csv
    \/ analyze_results
    \/ EngineFailure

Spec == Init /\ [][Next]_vars

SpecLong == InitLong /\ [][Next]_vars

SpecBatch == InitBatch /\ [][Next]_vars

SpecClock == InitClock /\ [][Next]_vars

\* the program keeps running: a statement that can be executed is executed
SpecFair == InitRun /\ [][Next]_vars /\ WF_vars(Next)

(***************************************************************************)
(* The properties of the specification, claim by claim.                    *)
(***************************************************************************)
Total == metrics["emergency_braking_total"]
AvCount == metrics["emergency_braking_av"]
HumanCount == metrics["emergency_braking_human"]

\* the run of the current rate has ended, by return or by an exception
RunEnded == pc \in {"aborted", "save_metrics_to_csv", "analyze_results", "done"}

\* C1: for every run whose connection start_simulation opened, close has been
\* called exactly once when the run has ended, also when an engine call of
\* the step loop raised.
C1_ClosedExactlyOnce ==
    (RunEnded /\ traci_open + close_calls > 0) => (close_calls = 1 /\ traci_open = 0)

\* C2: after every completed loop iteration each of the six series has
\* exactly one entry per executed step.
C2_SeriesLengths ==
    pc \in {"simulationStep", "close", "save_metrics_to_csv", "analyze_results", "done"}
      => \A k \in SeriesKeys : Len(Get(metrics, k)) = step

\* a second iteration has completed whose step had no vehicles
C2_Witness ==
    /\ pc = "close"
    /\ step = 2
    /\ getIDList = {}
    /\ \A k \in SeriesKeys : Len(Get(metrics, k)) = 2

\* C3: in every state the autonomous and the human emergency-braking counts
\* sum to the total.
C3_SubCountsSum == AvCount + HumanCount = Total

\* braking events of both classes have been counted
C3_Witness == AvCount >= 1 /\ HumanCount >= 1 /\ Total >= 2

\* C4: every signal adaptation (phase duration set to 10, counter
\* incremented) happened in a step whose index is divisible by 30 and for a
\* traffic light whose total waiting time was strictly above 120.
C4_AdaptationGuard ==
    /\ \A a \in adaptations : a.step % 30 = 0 /\ a.waiting_time > 120
    /\ adaptation_count = Cardinality(adaptations)
    /\ \A t \in DOMAIN traci_phase_duration :
         traci_phase_duration[t] = 10 => \E a \in adaptations : a.tls = t

\* at the check of step 30 one traffic light stands at exactly 120 and is
\* left alone while the other, at 121, is adapted
C4_Witness ==
    /\ pc = "collect_metrics"
    /\ step = 30
    /\ _get_total_waiting_time("t1") = 120
    /\ _get_total_waiting_time("t2") = 121
    /\ \E a \in adaptations : a.step = 30 /\ a.tls = "t2"
    /\ ~ \E a \in adaptations : a.step = 30 /\ a.tls = "t1"

\* C5: the autonomous set never shrinks within a run, and a vehicle in it
\* keeps the autonomous engine type.
C5_ClassificationMonotonic ==
    [][ /\ autonomous_vehicles \subseteq autonomous_vehicles'
        /\ \A v \in autonomous_vehicles : traci_vtype'[v] = "autonomous_passenger"
      ]_vars

\* an autonomous vehicle has left the network and is still in the set
C5_Witness ==
    /\ pc = "adapt"
    /\ \E v \in autonomous_vehicles :
         v \notin getIDList /\ traci_vtype[v] = "autonomous_passenger"

\* C6: once both collectors have run in a step with an empty vehicle set,
\* each of the six series has an entry for the step and the entry is 0.
C6_EmptyStepNeutral ==
    (pc = "detect_emergency_braking" /\ getIDList = {})
      => \A k \in SeriesKeys :
           /\ Len(Get(metrics, k)) = step + 1
           /\ IF k \in {"mean_speed", "average_travel_time", "traffic_flow_rate"}
              THEN Get(metrics, k)[step + 1] = [n |-> 0, d |-> 1]
              ELSE Get(metrics, k)[step + 1] = 0

\* an empty step follows a step in which vehicles were present
C6_Witness ==
    /\ pc = "detect_emergency_braking"
    /\ getIDList = {}
    /\ step = 1
    /\ Get(metrics, "fuel_consumption")[1] > 0

\* C7: with penetration rate 0.0 the autonomous set is empty in every state,
\* the autonomous braking count stays 0 and the human count is the total.
C7_RateZero ==
    av_rates = <<0>>
      => /\ autonomous_vehicles = {}
         /\ AvCount = 0
         /\ HumanCount = Total

\* at rate 0.0 vehicles have departed and braking has been counted
C7_Witness ==
    /\ av_rates = <<0>>
    /\ departed_seen # {}
    /\ Total >= 1

\* C8: with penetration rate 1.0 every identifier reported as departed is in
\* the autonomous set; a step all of whose vehicles were reported as departed
\* leaves the human braking count unchanged, so that the count stays 0 in a
\* run of a scenario in which every vehicle in the network has departed in
\* the run.
C8_RateOne ==
    /\ [](av_rates = <<100>> => departed_seen \subseteq autonomous_vehicles)
    /\ [][ (av_rates = <<100>> /\ getIDList \subseteq departed_seen)
             => HumanCount' = HumanCount ]_vars
    /\ []((av_rates = <<100>> /\ scenario.loaded = {}) => HumanCount = 0)

\* at rate 1.0 both vehicles have departed and braking has been counted
C8_Witness ==
    /\ av_rates = <<100>>
    /\ departed_seen = Vehicles
    /\ HumanCount = 0
    /\ Total >= 1

\* C9: the detection of a step raises the total by exactly the number of
\* vehicles whose acceleration is at most -7.5, and nothing else changes it.
C9_TotalCountsThreshold ==
    [][ metrics'["emergency_braking_total"] =
          Total + (IF pc = "detect_emergency_braking" /\ pc' # "aborted"
                   THEN Cardinality({ v \in getIDList : traci_vehicle[v].accel <= -75 })
                   ELSE 0)
      ]_vars

\* one step with a single vehicle at exactly -7.5 has been counted
C9_Witness ==
    /\ pc \in {"simulationStep", "close"}
    /\ step = 1
    /\ \E v \in Vehicles : getIDList = {v} /\ traci_vehicle[v].accel = -75
    /\ Total = 1

\* C10: at most one connection is open at any time; a run starts only with
\* no connection open, and the runs follow the order of av_rates.
C10_OneConnection ==
    /\ traci_open <= 1
    /\ pc = "start_simulation" => traci_open = 0
    /\ DOMAIN all_metrics = { av_rates[i] : i \in 1..(rate_idx - 1) }
    /\ pc \notin {"main_for", "save_metrics_to_csv", "analyze_results", "done"}
         => av_penetration_rate = av_rates[rate_idx]

\* the third run is about to open its connection, the first two are closed
C10_Witness ==
    /\ pc = "start_simulation"
    /\ rate_idx = 3
    /\ traci_open = 0
    /\ DOMAIN all_metrics = {0, 50}

\* the rates of the batch
BatchRates == { av_rates[i] : i \in 1..Len(av_rates) }

\* C11: a failing engine call ends the run and the batch: nothing runs after
\* it and no report exists, also for the runs completed before; a report
\* exists only once every run has returned, and it covers every rate.
C11_FailureAbortsBatch ==
    /\ pc = "aborted" => (DOMAIN report = {} /\ ~ ENABLED Next)
    /\ DOMAIN report # {}
         => /\ pc \in {"analyze_results", "done"}
            /\ rate_idx = Len(av_rates) + 1
            /\ DOMAIN all_metrics = BatchRates
            /\ DOMAIN report.csv = BatchRates
    /\ "plots" \in DOMAIN report
         => \A k \in SeriesKeys : DOMAIN report.plots[k] = BatchRates

\* the second run failed after the first had returned: its bundle is stored
\* and nothing is reported
C11_Witness ==
    /\ pc = "aborted"
    /\ rate_idx = 2
    /\ DOMAIN all_metrics = {0}
    /\ DOMAIN report = {}

\* the traffic lights an adaptation check of the current step applies to
AboveThreshold ==
    { t \in DOMAIN traci_phase_duration :
        step % 30 = 0 /\ _get_total_waiting_time(t) > 120 }

\* C12: the adaptation policy never changes the active phase of a traffic
\* light and writes nothing to the engine but phase durations; a traffic
\* light whose total waiting time is not above 120, and every traffic light
\* in a step not divisible by 30, keeps its phase and its phase duration and
\* adds nothing to the adaptation counter.
C12_AdaptationFrame ==
    [][ pc = "adapt"
          => /\ traci_phase' = traci_phase
             /\ UNCHANGED <<traci_open, traci_time, traci_left, traci_departed,
                            traci_vehicle, traci_vtype>>
             /\ \A t \in DOMAIN traci_phase_duration \ AboveThreshold :
                  /\ traci_phase_duration'[t] = traci_phase_duration[t]
                  /\ traci_phase_end'[t] = traci_phase_end[t]
             /\ pc' = "collect_metrics"
                  => adaptation_count' = adaptation_count + Cardinality(AboveThreshold)
      ]_vars

\* after the check of step 30 the traffic light at exactly 120 keeps the
\* duration of its program, the adapted one is in the same phase as before
C12_Witness ==
    /\ pc = "collect_metrics"
    /\ step = 30
    /\ _get_total_waiting_time("t1") = 120
    /\ traci_phase_duration["t1"] = ProgramDuration
    /\ traci_phase_duration["t2"] = 10
    /\ traci_phase["t2"] = 2
    /\ traci_phase["t1"] = 2

\* the value collect_additional_metrics appended last to a series
LastOf(key) == metrics[key][Len(metrics[key])]

\* the collection of the current step has run
Collected == pc = "detect_emergency_braking"

\* C13: the traffic flow rate of a step with vehicles is the number of
\* vehicles divided by the larger of 1 and the time the engine reports: the
\* divisor is never below 1, and one vehicle at the reported time 0 gives
\* the rate 1.
C13_FlowRate ==
    (Collected /\ getIDList # {})
      => LET e == LastOf("traffic_flow_rate")
             divisor == IF traci_time < 1 THEN 1 ELSE traci_time
         IN /\ e.d >= 1
            /\ e.n * divisor = e.d * Cardinality(getIDList)
            /\ (Cardinality(getIDList) = 1 /\ traci_time = 0)
                 => e = [n |-> 1, d |-> 1]

C13_Witness ==
    /\ Collected
    /\ Cardinality(getIDList) = 1
    /\ traci_time = 0
    /\ LastOf("traffic_flow_rate") = [n |-> 1, d |-> 1]

\* C14: the runs of the batch are independent: every run starts with an
\* empty autonomous set, no metric series, the adaptation counter 0 and the
\* three emergency-braking counters 0, and the bundle stored for an earlier
\* rate is changed by no later step.
C14_RunsIndependent ==
    /\ [](pc = "start_simulation"
            => /\ autonomous_vehicles = {}
               /\ DOMAIN metrics \cap SeriesKeys = {}
               /\ Total = 0 /\ AvCount = 0 /\ HumanCount = 0
               /\ adaptation_count = 0)
    /\ [][\A r \in DOMAIN all_metrics :
            r \in DOMAIN all_metrics' /\ all_metrics'[r] = all_metrics[r]]_vars

\* the third run starts after two runs that counted braking events and
\* classified a vehicle
C14_Witness ==
    /\ pc = "start_simulation"
    /\ rate_idx = 3
    /\ all_metrics[0]["emergency_braking_human"] = 1
    /\ all_metrics[50]["emergency_braking_av"] = 1
    /\ Len(all_metrics[50]["mean_speed"]) = 1
    /\ autonomous_vehicles = {}

\* the sum of a series, added up value by value in lowest terms
RECURSIVE Sum(_)
Sum(values) ==
    IF values = <<>> THEN Div(0, 1)
    ELSE LET rest == Sum(Tail(values))
         IN  Div(values[1].n * rest.d + rest.n * values[1].d, values[1].d * rest.d)

\* h hundredths is the fraction num / den rounded to two decimals
Rounds(h, num, den) ==
    LET diff == h * den - 100 * num
    IN  2 * (IF diff < 0 THEN 0 - diff ELSE diff) <= den

\* the row shows the average, the maximum, the minimum and the last element
IsSummaryOf(row, values) ==
    /\ Rounds(row[1], Sum(values).n, Sum(values).d * Len(values))
    /\ \E i \in DOMAIN values :
         /\ Rounds(row[2], values[i].n, values[i].d)
         /\ \A j \in DOMAIN values : values[j].n * values[i].d <= values[i].n * values[j].d
    /\ \E i \in DOMAIN values :
         /\ Rounds(row[3], values[i].n, values[i].d)
         /\ \A j \in DOMAIN values : values[i].n * values[j].d <= values[j].n * values[i].d
    /\ Rounds(row[4], values[Len(values)].n, values[Len(values)].d)

\* C15: for every tracked metric and every rate the summary row of the
\* report holds the average, the maximum, the minimum and the last element
\* of the run's full series, each with two decimals; for the mean-speed
\* series 10.0, 20.0, 30.0 the row is 20.00, 30.00, 10.00, 30.00.
C15_SummaryRow ==
    /\ "csv" \in DOMAIN report
         => \A rate \in DOMAIN all_metrics : \A k \in SeriesKeys :
              IsSummaryOf(report.csv[rate].statistics[k],
                          Values(all_metrics[rate], k))
    /\ SummaryRow(<<[n |-> 10, d |-> 1], [n |-> 20, d |-> 1], [n |-> 30, d |-> 1]>>)
         = <<2000, 3000, 1000, 3000>>

\* a report whose mean-speed series is 5.0, 4.5: average 4.75, maximum
\* 5.00, minimum and final 4.50
C15_Witness ==
    /\ "csv" \in DOMAIN report
    /\ 50 \in DOMAIN all_metrics
    /\ all_metrics[50]["mean_speed"] = <<[n |-> 5, d |-> 1], [n |-> 9, d |-> 2]>>
    /\ report.csv[50].statistics["mean_speed"] = <<475, 500, 450, 450>>

\* run has returned its bundle to main
Returned == pc \in {"save_metrics_to_csv", "analyze_results", "done"}

\* the number of steps the engine has advanced since it was started
EngineSteps == traci_time - scenario.begin

\* C16: a run of N steps in which every engine call returns terminates: it
\* advances the engine once per loop iteration, N times in all, then closes
\* the connection and returns the bundle; after close the engine is not
\* advanced, no vehicle is classified and nothing is appended to a series.
C16_RunTerminates ==
    /\ <>(\/ pc = "aborted"
          \/ /\ Returned
             /\ EngineSteps = steps
             /\ step = steps
             /\ close_calls = 1
             /\ traci_open = 0
             /\ all_metrics[av_penetration_rate] = metrics)
    /\ [][IF close_calls = 1
          THEN UNCHANGED <<engineVars, simVars, departed_seen, adaptations>>
          ELSE step' # step => (EngineSteps = step + 1 /\ step' = step + 1)]_vars

C16_Witness ==
    /\ pc = "done"
    /\ steps = MaxSteps
    /\ EngineSteps = MaxSteps
    /\ close_calls = 1
    /\ Len(metrics["mean_speed"]) = MaxSteps

\* the adaptations a check of the current step owes: one for every traffic
\* light whose total waiting time is above 120
Owed ==
    { [step |-> step, tls |-> t, waiting_time |-> _get_total_waiting_time(t)] :
        t \in { u \in DOMAIN traci_phase_duration :
                  _get_total_waiting_time(u) > 120 } }

\* C17: at every step divisible by 30 every traffic light whose total
\* waiting time exceeds 120 is adapted exactly once, also when it was
\* adapted at an earlier check; the adaptation counter never decreases, and
\* the adaptation_frequency a run reports is the number of pairs of a check
\* step and a traffic light above 120.
C17_NoCooldown ==
    /\ [][(pc = "adapt" /\ pc' = "collect_metrics" /\ step % 30 = 0)
            => /\ adaptations' = adaptations \cup Owed
               /\ adaptation_count' = adaptation_count + Cardinality(Owed)
               /\ \A a \in Owed : traci_phase_duration'[a.tls] = 10]_vars
    /\ [][adaptation_count' >= adaptation_count]_vars
    /\ [](\A a \in adaptations : a.step % 30 = 0 /\ a.waiting_time > 120)
    /\ [](Returned
            => metrics["adaptation_frequency"] = Cardinality(adaptations))

\* a run that adapted the same traffic light at the checks of steps 0 and 30
C17_Witness ==
    /\ Returned
    /\ \E a \in adaptations : a.step = 0 /\ a.tls = "t2"
    /\ \E a \in adaptations : a.step = 30 /\ a.tls = "t2"
    /\ metrics["adaptation_frequency"] >= 2

\* the vehicles of the current step that brake at or below the threshold
Braking == { v \in getIDList : traci_vehicle[v].accel <= 0 - 75 }

\* C18: emergency-braking detection runs in every step of the loop, also
\* when no vehicle is in the network, and after the classification of the
\* vehicles departed in that step: a vehicle that departs, is classified
\* autonomous and brakes in the same step is counted as autonomous, never as
\* human-driven.
C18_DetectionEveryStep ==
    /\ [][step' # step
            => (pc = "detect_emergency_braking" \/ pc \in {"main_for", "start_simulation"})]_vars
    /\ [](pc = "detect_emergency_braking"
            => /\ traci_departed \subseteq departed_seen
               /\ \A v \in traci_departed :
                    traci_vtype[v] = "autonomous_passenger" => v \in autonomous_vehicles
               /\ Len(metrics["congestion_levels"]) = step + 1)
    /\ [][(pc = "detect_emergency_braking" /\ pc' # "aborted")
            => /\ step' = step + 1
               /\ AvCount' = AvCount + Cardinality(Braking \cap autonomous_vehicles)
               /\ HumanCount' = HumanCount + Cardinality(Braking \ autonomous_vehicles)]_vars

\* after the first step: the vehicle that departed in it was classified
\* autonomous, braked at the threshold and was counted as autonomous
C18_Witness ==
    /\ step = 1
    /\ pc \in {"simulationStep", "close"}
    /\ \E v \in traci_departed \cap autonomous_vehicles : traci_vehicle[v].accel = 0 - 75
    /\ AvCount = 1
    /\ HumanCount = 0

\* the vehicles the engine type change to the autonomous type was applied to
TypeChanged == { v \in Vehicles : traci_vtype[v] = "autonomous_passenger" }

\* C19: the autonomous set holds only vehicles the engine has reported as
\* departed during the run, and exactly those the type change to the
\* autonomous type was applied to; a vehicle enters the set only in the step
\* in which it departs, so one not classified then is never classified.
C19_ClassifiedAtDeparture ==
    /\ [](autonomous_vehicles \subseteq departed_seen)
    /\ [](autonomous_vehicles = TypeChanged)
    /\ [][/\ autonomous_vehicles' \ autonomous_vehicles \subseteq traci_departed
          /\ TypeChanged' \ TypeChanged \subseteq traci_departed
          /\ (departed_seen \ autonomous_vehicles) \cap autonomous_vehicles' = {}
         ]_vars

\* in the step after its departure a vehicle that was not classified is
\* still in the network and stays human-driven, next to one that was
C19_Witness ==
    /\ pc = "adapt"
    /\ step = 1
    /\ \E v \in departed_seen \ traci_departed :
         /\ traci_vehicle[v] # Absent
         /\ v \notin autonomous_vehicles
         /\ traci_vtype[v] = "passenger"
    /\ \E v \in traci_departed : v \in autonomous_vehicles

\* C20: in a step with a non-empty vehicle set V the appended stop count is
\* the number of vehicles of V in the stopped state and the appended
\* congestion count is the number of vehicles of V whose speed is strictly
\* below 5, a vehicle at speed exactly 5 not being counted; both lie between
\* 0 and the size of V.
C20_StopAndCongestionCounts ==
    (Collected /\ getIDList # {})
      => LET stops == LastOf("number_of_stops")
             congested == LastOf("congestion_levels")
         IN  /\ stops = Cardinality({ v \in getIDList : traci_vehicle[v].stop # 0 })
             /\ congested = Cardinality({ v \in getIDList : traci_vehicle[v].speed < 5 })
             /\ congested = Cardinality(getIDList)
                              - Cardinality({ v \in getIDList : traci_vehicle[v].speed >= 5 })
             /\ stops \in 0..Cardinality(getIDList)
             /\ congested \in 0..Cardinality(getIDList)

\* one vehicle at speed 5 and one at speed 4, neither stopped: one congested
C20_Witness ==
    /\ Collected
    /\ \E v \in getIDList : traci_vehicle[v].speed = 5
    /\ \E v \in getIDList : traci_vehicle[v].speed = 4
    /\ LastOf("congestion_levels") = 1
    /\ LastOf("number_of_stops") = 0

====
